---- MODULE Spec2Model ----
(***************************************************************************)
(* Model of tc_dl.py, the Twitch clip downloader: token check and renewal, *)
(* channel lookup, the two pagination passes of get_clips, the category    *)
(* name cache and the download loop.                                       *)
(*                                                                         *)
(* Encodings.  A Python str is a sequence of one-character strings; None   *)
(* is the one-element sequence None.  A created_at timestamp               *)
(* "YYYY-MM-DDTHH:MM:SSZ" is the number day * TimesPerDay + time with      *)
(* day >= 1, and the empty string is 0, so that the order of the numbers   *)
(* is the order of the strings.                                            *)
(***************************************************************************)
EXTENDS Integers, Sequences, FiniteSets, TLC

VARIABLES
    pc,                 \* position of the run
    config,             \* the global config dictionary (auth and user sections)
    requests,           \* every network request issued so far, in order
    game_cache,         \* the global game_cache dictionary
    headers,            \* get_clips: headers built once from the auth config
    broadcaster_id,     \* get_clips: argument
    limit,              \* fetch_clips: argument (page size of the pass)
    cursor,             \* fetch_clips: local cursor
    after,              \* fetch_clips: params["after"] ("" when the key is not set)
    pages,              \* fetch_clips: requests answered in this pass
    clips,              \* get_clips: accumulated clip list
    seen_clip_ids,      \* get_clips: ids already accumulated
    received,           \* clip records received in successfully answered pages
    skipped,            \* ids dropped by the seen_clip_ids test
    fetched,            \* the clips in the order clips.append received them
    responses,          \* per clips request: the cursor answered ("" for none), or "error"
    first_record,       \* per clip id: the record received first
    simulation_mode,    \* download_clips: argument (args.s)
    idx,                \* download_clips: clips of the for loop already processed
    downloaded_clips,   \* download_clips: the path list being built
    clip_url,           \* download_clips: local clip_url (Unbound before line 399)
    disk,               \* the paths that exist on disk
    ydl_calls,          \* every ydl.download invocation so far, in order
    outcome,            \* per processed clip: what the iteration met and did
    first_run,          \* history: what an earlier call of download_clips did
    now,                \* what datetime.now() returns when read next, in ticks
    token_valid,        \* main: what is_token_valid returned
    checked_at,         \* is_token_valid: the datetime.now() it compared with
    validate_answer,    \* is_token_valid: the answer of the validate endpoint
    token_data,         \* main: what manage_twitch_oauth_token returned
    renewed_at,         \* history: datetime.now() of the last renewal, in ticks
    granted_expires_in, \* history: expires_in of the last token response
    user_name,          \* main: the channel name entered
    start_timestamp,    \* main: start of the time range, in seconds
    end_timestamp,      \* main: end of the time range, in seconds
    exit_code,          \* the exit code once exit() was called, else 0
    error_message,      \* the error the run ended on
    provider_clips,     \* the clip records the provider may answer with
    config_file,        \* config.json: absent, unreadable, or JSON with a content
    args_c,             \* main: args.c, the -c option
    in_load_config,     \* input_defaults: whether load_config is the caller
    saves               \* history: the sections save_config_section has written

fetchVars == <<headers, broadcaster_id, limit, cursor, after, pages,
              seen_clip_ids, received, skipped, fetched, responses, first_record>>
clipVars == <<fetchVars, clips>>
dlVars == <<simulation_mode, idx, downloaded_clips, clip_url, disk, ydl_calls,
            outcome, first_run>>
tokenVars == <<now, token_valid, checked_at, validate_answer, token_data,
               renewed_at, granted_expires_in>>
mainVars == <<user_name, start_timestamp, end_timestamp, exit_code, error_message,
              provider_clips>>
cfgVars == <<config_file, args_c, in_load_config, saves>>
vars == <<pc, config, requests, game_cache, clipVars, dlVars, tokenVars, mainVars,
          cfgVars>>

----------------------------------------------------------------------------
\* Bounds of the model.
MaxPages == 2           \* page requests answered with a cursor, per pass
MaxPageLen == 2         \* clips per page the provider returns
MaxClips == 2           \* clips handed to download_clips
MaxNow == 4             \* last tick of the clock

\* Program constants.
PageSizeStrict == 2
PageSizeLoose == 99
TimesPerDay == 2

None == <<"None">>
NoCursor == ""
Cursors == {"c1", "c2"}

Min(a, b) == IF a < b THEN a ELSE b

SeqsUpTo(S, n) == UNION {[1..k -> S] : k \in 0..n}

\* A clip record as the provider sends it.
Clip(id, created_at) ==
    [id |-> id, created_at |-> created_at, url |-> id,
     title |-> <<"a">>, creator_name |-> <<"c">>,
     broadcaster_name |-> <<"b">>, game_id |-> "g1"]

\* The clips the provider answers with in get_clips: three ids, the first
\* with two records, two clips with the same created_at.
ClipPool == {Clip(1, 3), Clip(1, 2), Clip(2, 2), Clip(3, 2)}

----------------------------------------------------------------------------
\* get_auth_config
get_auth_config ==
    [client_id |-> config.client_id, client_secret |-> config.client_secret,
     access_token |-> config.access_token, expires_at |-> config.expires_at]

\* The headers every authenticated request carries.
AuthHeaders ==
    [client_id |-> get_auth_config.client_id,
     token |-> get_auth_config.access_token]

Request(kind, hdr, arg, first, aft) ==
    [kind |-> kind, client_id |-> hdr.client_id, token |-> hdr.token,
     arg |-> arg, first |-> first, after |-> aft]

----------------------------------------------------------------------------
\* get_clips

\* Mutant of Accumulate: the seen_clip_ids test is dropped.
AccumulateAll(acc, seen, data) == acc \o data

\* Mutant of Accumulate: a record whose id is in seen_clip_ids replaces the
\* one accumulated.
RECURSIVE AccumulateLatest(_, _, _)
AccumulateLatest(acc, seen, data) ==
    IF data = <<>> THEN acc
    ELSE LET c == Head(data)
         IN IF c.id \notin seen
            THEN AccumulateLatest(Append(acc, c), seen \cup {c.id}, Tail(data))
            ELSE AccumulateLatest(
                     [k \in DOMAIN acc |-> IF acc[k].id = c.id THEN c ELSE acc[k]],
                     seen, Tail(data))

\* The loop over data.get("data", []): append the clips whose id is not in
\* seen_clip_ids, adding each appended id to it.
RECURSIVE Accumulate(_, _, _)
Accumulate(acc, seen, data) ==
    IF data = <<>> THEN acc
    ELSE LET c == Head(data)
         IN IF c.id \notin seen
            THEN Accumulate(Append(acc, c), seen \cup {c.id}, Tail(data))
            ELSE Accumulate(acc, seen, Tail(data))

\* The ids of data that the seen_clip_ids test drops.
RECURSIVE Dropped(_, _)
Dropped(seen, data) ==
    IF data = <<>> THEN {}
    ELSE LET c == Head(data)
         IN (IF c.id \in seen THEN {c.id} ELSE {})
            \cup Dropped(seen \cup {c.id}, Tail(data))

\* The first record received of each id, after a page with `data` came in.
RECURSIVE FirstRecords(_, _)
FirstRecords(first, data) ==
    IF data = <<>> THEN first
    ELSE LET c == Head(data)
         IN FirstRecords(IF c.id \in DOMAIN first THEN first
                         ELSE (c.id :> c) @@ first, Tail(data))

\* list.sort(key=created_at): stable, ascending.
RECURSIVE InsertByCreatedAt(_, _)
InsertByCreatedAt(c, s) ==
    IF s = <<>> THEN <<c>>
    ELSE IF s[Len(s)].created_at <= c.created_at THEN Append(s, c)
    ELSE Append(InsertByCreatedAt(c, SubSeq(s, 1, Len(s) - 1)), s[Len(s)])

\* Mutant of SortByCreatedAt: the list is returned as accumulated.
SortSkipped(s) == s

RECURSIVE SortByCreatedAt(_)
SortByCreatedAt(s) ==
    IF s = <<>> THEN <<>>
    ELSE InsertByCreatedAt(s[Len(s)], SortByCreatedAt(SubSeq(s, 1, Len(s) - 1)))

\* Mutant of EndPass: the cursor of the pass that ends is left in place.
EndPassKeepsCursor(newClips, newSeen) ==
    /\ fetched' = newClips
    /\ clips' = IF limit = PageSizeStrict THEN newClips
                ELSE SortByCreatedAt(newClips)
    /\ seen_clip_ids' = newSeen
    /\ cursor' = cursor
    /\ after' = after
    /\ pages' = 0
    /\ limit' = IF limit = PageSizeStrict THEN PageSizeLoose ELSE limit
    /\ pc' = IF limit = PageSizeStrict THEN "get_clips" ELSE "got_clips"

\* The end of a pass: the next pass starts, or get_clips sorts and returns.
EndPass(newClips, newSeen) ==
    /\ fetched' = newClips
    /\ clips' = IF limit = PageSizeStrict THEN newClips
                ELSE SortByCreatedAt(newClips)
    /\ seen_clip_ids' = newSeen
    /\ cursor' = NoCursor
    /\ after' = NoCursor
    /\ pages' = 0
    /\ limit' = IF limit = PageSizeStrict THEN PageSizeLoose ELSE limit
    /\ pc' = IF limit = PageSizeStrict THEN "get_clips" ELSE "got_clips"

\* Mutant of FetchPageFails: the failure drops what was accumulated and
\* ends get_clips.
FetchPageFailsDiscards ==
    /\ pc = "get_clips"
    /\ LET aft == IF cursor # NoCursor THEN cursor ELSE after
       IN requests' = Append(requests,
              Request("clips", headers, broadcaster_id, limit, aft))
    /\ responses' = Append(responses, "error")
    /\ fetched' = <<>>
    /\ clips' = <<>>
    /\ seen_clip_ids' = {}
    /\ cursor' = NoCursor
    /\ after' = NoCursor
    /\ pages' = 0
    /\ limit' = PageSizeLoose
    /\ pc' = "got_clips"
    /\ UNCHANGED <<config, game_cache, headers, broadcaster_id, received, skipped,
                   first_record>>
    /\ UNCHANGED <<dlVars, tokenVars, mainVars, cfgVars>>

\* One iteration of the while loop of fetch_clips: the request fails.
FetchPageFails ==
    /\ pc = "get_clips"
    /\ LET aft == IF cursor # NoCursor THEN cursor ELSE after
       IN requests' = Append(requests,
              Request("clips", headers, broadcaster_id, limit, aft))
    /\ responses' = Append(responses, "error")
    /\ EndPass(clips, seen_clip_ids)
    /\ UNCHANGED <<config, game_cache, headers, broadcaster_id, received, skipped,
                   first_record>>
    /\ UNCHANGED <<dlVars, tokenVars, mainVars, cfgVars>>

\* One iteration of the while loop of fetch_clips: the request is answered.
FetchPage ==
    /\ pc = "get_clips"
    /\ \E data \in SeqsUpTo(provider_clips, Min(limit, MaxPageLen)),
          cur \in Cursors \cup {NoCursor} :
        /\ pages + 1 >= MaxPages => cur = NoCursor
        /\ LET aft == IF cursor # NoCursor THEN cursor ELSE after
               newClips == Accumulate(clips, seen_clip_ids, data)
               newSeen == seen_clip_ids \cup {data[k].id : k \in DOMAIN data}
           IN /\ requests' = Append(requests,
                     Request("clips", headers, broadcaster_id, limit, aft))
              /\ received' = received \cup {data[k] : k \in DOMAIN data}
              /\ skipped' = skipped \cup Dropped(seen_clip_ids, data)
              /\ responses' = Append(responses, cur)
              /\ first_record' = FirstRecords(first_record, data)
              /\ IF cur = NoCursor
                 THEN EndPass(newClips, newSeen)
                 ELSE /\ clips' = newClips
                      /\ fetched' = newClips
                      /\ seen_clip_ids' = newSeen
                      /\ cursor' = cur
                      /\ after' = aft
                      /\ pages' = pages + 1
                      /\ UNCHANGED <<limit, pc>>
    /\ UNCHANGED <<config, game_cache, headers, broadcaster_id>>
    /\ UNCHANGED <<dlVars, tokenVars, mainVars, cfgVars>>

----------------------------------------------------------------------------
\* get_game_name and download_clips

Unbound == 0 - 1
NoUrl == 0
Unknown == <<"U", "n", "k", "n", "o", "w", "n">>
Mp4 == <<".", "m", "p", "4">>
Punctuation == {"!", ".", "-", ":"}
Whitespace == {" "}
GameIds == {"g1", "g2"}
\* The display name the provider holds for each category id.
ProviderGameName == [g \in GameIds |-> IF g = "g1" THEN <<"g">> ELSE <<"h", "!">>]
DayName == <<<<"D", "1">>, <<"D", "2">>>>

\* str.strip(): leading and trailing whitespace removed.
RECURSIVE Strip(_)
Strip(s) ==
    IF s = <<>> THEN s
    ELSE IF Head(s) \in Whitespace THEN Strip(Tail(s))
    ELSE IF s[Len(s)] \in Whitespace THEN Strip(SubSeq(s, 1, Len(s) - 1))
    ELSE s

\* re.sub(r"[^\w\s]", "", s).strip()
Sanitize(s) == Strip(SelectSeq(s, LAMBDA ch : ch \notin Punctuation))

\* clip.get("created_at", "").split("T")[0]
DatePart(created_at) ==
    IF created_at = 0 THEN <<>> ELSE DayName[created_at \div TimesPerDay]

\* get_user_config
get_user_config ==
    [default_user_name |-> config.default_user_name, spacer |-> config.spacer,
     dl_folder |-> config.dl_folder]

\* file_name (line 411) and os.path.join(dl_folder, file_name) (line 412)
FilePath(dl_folder, spacer, clip_date, game_name, clip_title, clip_creator) ==
    dl_folder \o <<"/">> \o clip_date \o spacer \o game_name \o spacer
        \o clip_title \o spacer \o clip_creator \o Mp4

\* get_game_name(game_id) when the provider answers `answer` to a request:
\* the name returned, the cache afterwards, and whether a request was sent.
get_game_name(game_id, answer) ==
    IF game_id \in DOMAIN game_cache
    THEN [name |-> game_cache[game_id], cache |-> game_cache, asked |-> FALSE]
    ELSE IF answer = "name"
    THEN [name |-> ProviderGameName[game_id],
          cache |-> (game_id :> ProviderGameName[game_id]) @@ game_cache,
          asked |-> TRUE]
    ELSE [name |-> Unknown, cache |-> game_cache, asked |-> TRUE]

\* Mutant of Branch: the os.path.exists test is dropped.
BranchNoExistsTest(hasUrl, hasDate, folderOk, exists, simulate) ==
    IF ~hasUrl \/ ~hasDate THEN "missing"
    ELSE IF ~folderOk THEN "raise"
    ELSE IF simulate THEN "simulated"
    ELSE "transfer"

\* Mutant of Branch: the simulation_mode test is dropped.
BranchNoSimulation(hasUrl, hasDate, folderOk, exists, simulate) ==
    IF ~hasUrl \/ ~hasDate THEN "missing"
    ELSE IF ~folderOk THEN "raise"
    ELSE IF exists THEN "exists"
    ELSE "transfer"

\* Lines 406-423 of the loop body: which way an iteration goes once the
\* fields are read and the game name is known.
Branch(hasUrl, hasDate, folderOk, exists, simulate) ==
    IF ~hasUrl \/ ~hasDate THEN "missing"
    ELSE IF ~folderOk THEN "raise"
    ELSE IF exists THEN "exists"
    ELSE IF simulate THEN "simulated"
    ELSE "transfer"

\* Mutant of Recorded: the path is appended although the transfer raised.
RecordedAlways(kind, xfer) == kind \in {"exists", "simulated", "transfer"}

\* Whether the iteration appends file_path to downloaded_clips.
Recorded(kind, xfer) ==
    \/ kind \in {"exists", "simulated"}
    \/ kind = "transfer" /\ xfer = "ok"

\* No call of download_clips has returned yet.
NoRun == [done |-> FALSE, paths |-> <<>>, all_ok |-> FALSE]

\* One iteration of the for loop of download_clips.  `answer` is the
\* provider's answer to a category lookup, `xfer` what ydl.download does:
\* "ok", "fail" (raises, nothing written) or "partial" (raises, file left).
ProcessClip ==
    /\ pc = "download"
    /\ idx < Len(clips)
    /\ \E answer \in {"name", "nodata", "error"}, xfer \in {"ok", "fail", "partial"} :
        LET clip == clips[idx + 1]
            user_config == get_user_config
            raise398 == clip.broadcaster_name = None
            raise400 == clip.title = None \/ clip.creator_name = None
            reached404 == ~raise398 /\ ~raise400
            game == get_game_name(clip.game_id, answer)
            clip_date == DatePart(clip.created_at)
            folderOk == user_config.dl_folder # None
            file_path ==
                FilePath(user_config.dl_folder, user_config.spacer, clip_date,
                         Sanitize(game.name), Sanitize(clip.title),
                         Sanitize(clip.creator_name))
            kind == IF ~reached404 THEN "raise"
                    ELSE Branch(clip.url # NoUrl, clip_date # <<>>, folderOk,
                                folderOk /\ file_path \in disk, simulation_mode)
            reached412 == reached404 /\ clip.url # NoUrl /\ clip_date # <<>>
                          /\ folderOk
            raised == kind = "raise" \/ (kind = "transfer" /\ xfer # "ok")
            url_now == IF raise398 THEN clip_url ELSE clip.url
            aborts == raised /\ url_now = Unbound
            last == idx + 1 = Len(clips)
        IN /\ clip_url' = url_now
           /\ game_cache' = IF reached404 THEN game.cache ELSE game_cache
           /\ requests' = IF reached404 /\ game.asked
                          THEN Append(requests,
                                   Request("games", AuthHeaders, clip.game_id, 0, NoCursor))
                          ELSE requests
           /\ ydl_calls' = IF kind = "transfer"
                           THEN Append(ydl_calls,
                                    [clip |-> idx + 1, url |-> clip.url, path |-> file_path])
                           ELSE ydl_calls
           /\ disk' = IF kind = "transfer" /\ xfer \in {"ok", "partial"}
                      THEN disk \cup {file_path} ELSE disk
           /\ downloaded_clips' = IF Recorded(kind, xfer)
                                  THEN Append(downloaded_clips, file_path)
                                  ELSE downloaded_clips
           /\ outcome' = Append(outcome,
                  [kind |-> kind,
                   path |-> IF reached412 THEN file_path ELSE <<>>,
                   existed |-> reached412 /\ file_path \in disk,
                   game |-> IF reached404 THEN game.name ELSE None,
                   answer |-> IF reached404 /\ game.asked THEN answer ELSE "none",
                   xfer |-> IF kind = "transfer" THEN xfer ELSE "none"])
           /\ idx' = idx + 1
           /\ pc' = IF aborts THEN "crashed"
                    ELSE IF last THEN "dl_returned" ELSE "download"
    /\ UNCHANGED <<config, fetchVars, clips, simulation_mode, first_run,
                   tokenVars, mainVars, cfgVars>>

\* download_clips is called again on the same clip list once it has
\* returned: its locals start afresh (lines 390-393), the files on disk
\* stay.  The second call is made by the same process, which still has its
\* game_cache, or by a new one, which starts with an empty cache (line 55).
Rerun ==
    /\ pc = "dl_returned"
    /\ ~first_run.done
    /\ first_run' = [done |-> TRUE, paths |-> downloaded_clips,
                     all_ok |-> /\ ~simulation_mode
                                /\ Len(ydl_calls) = Len(clips)
                                /\ \A i \in DOMAIN outcome :
                                      outcome[i].xfer = "ok"]
    /\ \E same_process \in BOOLEAN :
          game_cache' = IF same_process THEN game_cache ELSE <<>>
    /\ idx' = 0
    /\ downloaded_clips' = <<>>
    /\ clip_url' = Unbound
    /\ ydl_calls' = <<>>
    /\ outcome' = <<>>
    /\ pc' = "download"
    /\ UNCHANGED <<config, requests, fetchVars, clips, simulation_mode, disk,
                   tokenVars, mainVars, cfgVars>>

\* download_clips has not been called.
DlIdle ==
    /\ simulation_mode = FALSE
    /\ idx = 0
    /\ downloaded_clips = <<>>
    /\ clip_url = Unbound
    /\ disk = {}
    /\ ydl_calls = <<>>
    /\ outcome = <<>>
    /\ first_run = NoRun

----------------------------------------------------------------------------
\* is_token_valid and manage_twitch_oauth_token

TicksPerSec == 2
Absent == 0 - 1         \* the auth section has no expires_at key
Malformed == 0 - 2      \* expires_at is not "%Y-%m-%d %H:%M:%S"
ExpiresIns == {1, 2}    \* expires_in of a token response, in seconds

\* datetime.strptime(expires_at, "%Y-%m-%d %H:%M:%S"), in ticks
strptime(expires_at) == expires_at * TicksPerSec

\* Mutant of strftime: a started second counts as a whole one.
strftimeRoundsUp(t) == (t + TicksPerSec - 1) \div TicksPerSec

\* expiration_date.strftime("%Y-%m-%d %H:%M:%S"): the fraction of the second
\* is dropped
strftime(t) == t \div TicksPerSec

\* Mutant of LocallyUnexpired: a token expiring right now counts as unexpired.
LocallyUnexpiredInclusive(auth, t) ==
    /\ auth.access_token # ""
    /\ auth.expires_at \notin {Absent, Malformed}
    /\ t <= strptime(auth.expires_at)

\* Lines 159-162: the stored token is there and its expires_at parses to a
\* time after t.
LocallyUnexpired(auth, t) ==
    /\ auth.access_token # ""
    /\ auth.expires_at \notin {Absent, Malformed}
    /\ t < strptime(auth.expires_at)

\* Time passes until datetime.now() is read again.
ClockAdvances == \E t \in now..MaxNow : now' = t

\* is_token_valid, called by main.  `answer` is what the validate endpoint
\* does: status 200, another status, or no response (the request raises).
CheckToken ==
    /\ pc = "check_token"
    /\ checked_at' = now
    /\ IF LocallyUnexpired(config, now)
       THEN \E answer \in {"200", "401", "error"} :
              /\ requests' = Append(requests,
                     Request("validate", [client_id |-> "", token |-> config.access_token],
                             "", 0, NoCursor))
              /\ validate_answer' = answer
              /\ token_valid' = (answer = "200")
              /\ pc' = IF answer = "error" THEN "crashed"
                       ELSE IF answer = "200" THEN "channel" ELSE "renew"
       ELSE /\ token_valid' = FALSE
            /\ pc' = "renew"
            /\ UNCHANGED <<requests, validate_answer>>
    /\ ClockAdvances
    /\ UNCHANGED <<config, game_cache, clipVars, dlVars, token_data, renewed_at,
                   granted_expires_in, mainVars, cfgVars>>

\* Mutant of save_config_section: the configuration in memory is left as
\* it was loaded.
save_config_section_not_in_memory(cfg, data) == cfg

\* config[section].update(data)
save_config_section(cfg, data) ==
    [k \in DOMAIN cfg |-> IF k \in DOMAIN data THEN data[k] ELSE cfg[k]]

\* Mutant of CredentialsMissing: only the client id is looked at.
CredentialsMissingIdOnly(client_id, client_secret) == client_id = ""

\* Line 210: not client_id or not client_secret.
CredentialsMissing(client_id, client_secret) ==
    client_id = "" \/ client_secret = ""

\* manage_twitch_oauth_token(), called by main without arguments.  `answer`
\* is what the token endpoint does: "ok" (JSON with access_token and
\* expires_in), "no_expires_in" (JSON without expires_in), "empty" (empty
\* JSON object) or "error" (network error or non-2xx status).
RenewToken ==
    /\ pc = "renew"
    /\ LET auth == get_auth_config
           client_id == auth.client_id
           client_secret == auth.client_secret
       IN IF CredentialsMissing(client_id, client_secret)
          THEN /\ token_data' = "None"
               /\ pc' = "channel"
               /\ UNCHANGED <<config, requests, renewed_at, granted_expires_in,
                              config_file, saves>>
          ELSE \E answer \in {"ok", "no_expires_in", "empty", "error"},
                  expires_in \in ExpiresIns :
                 /\ requests' = Append(requests,
                        Request("token", [client_id |-> client_id, token |-> ""],
                                client_secret, 0, NoCursor))
                 /\ IF answer = "ok"
                    THEN /\ config' = save_config_section(config,
                                [client_id |-> client_id,
                                 client_secret |-> client_secret,
                                 access_token |-> "new",
                                 expires_at |->
                                     strftime(now + expires_in * TicksPerSec)])
                         /\ config_file' = [state |-> "json", content |-> config']
                         /\ saves' = Append(saves, "auth")
                         /\ token_data' = "data"
                         /\ renewed_at' = now
                         /\ granted_expires_in' = expires_in
                         /\ pc' = "channel"
                    ELSE /\ token_data' = IF answer = "no_expires_in" THEN "unset"
                                          ELSE "None"
                         /\ pc' = IF answer = "no_expires_in" THEN "crashed"
                                  ELSE "channel"
                         /\ UNCHANGED <<config, renewed_at, granted_expires_in,
                                        config_file, saves>>
    /\ ClockAdvances
    /\ UNCHANGED <<game_cache, clipVars, dlVars, token_valid, checked_at,
                   validate_answer, mainVars, args_c, in_load_config>>

\* is_token_valid and manage_twitch_oauth_token have not been called.
TokenIdle ==
    /\ now = 0
    /\ token_valid = FALSE
    /\ checked_at = 0
    /\ validate_answer = "none"
    /\ token_data = "unset"
    /\ renewed_at = 0
    /\ granted_expires_in = 0

----------------------------------------------------------------------------
\* main: channel lookup, time range, and the calls of get_clips and
\* download_clips

DaySecs == 86400
NoId == "None"
BadDate == 0 - 1        \* an entry datetime.fromisoformat rejects
\* The start and end dates entered: an inclusive range of two days, one
\* day, a start after the end, and entries that are no dates.
DateEntries ==
    {<<1, 2>>, <<1, 1>>, <<2, 1>>, <<BadDate, 1>>, <<1, BadDate>>,
     <<BadDate, BadDate>>}

\* datetime.fromisoformat(start_date).isoformat() + "Z", in seconds
StartOfDay(d) == d * DaySecs

\* (fromisoformat(end_date) + timedelta(days=1) - timedelta(seconds=1)), in
\* seconds
EndOfDay(d) == d * DaySecs + DaySecs - 1

\* Mutant of LookupOutcome: an empty result is reported and the run goes on.
LookupOutcomeNoExit(answer) ==
    [id |-> IF answer = "found" THEN "12345" ELSE NoId,
     exits |-> FALSE,
     message |-> IF answer = "empty" THEN "user_not_found" ELSE "none"]

\* Lines 281-292: what get_broadcaster_id does with the answer of the users
\* endpoint: the id it returns, whether it calls exit(1), what it reports.
LookupOutcome(answer) ==
    [id |-> IF answer = "found" THEN "12345" ELSE NoId,
     exits |-> answer = "empty",
     message |-> IF answer = "empty" THEN "user_not_found" ELSE "none"]

\* input_channel_name and get_broadcaster_id.  `answer` is what the users
\* endpoint does: "found" (one user), "empty" (no user) or "error".
LookupChannel ==
    /\ pc = "channel"
    /\ user_name' = "exampleuser"
    /\ requests' = Append(requests,
           Request("users", AuthHeaders, "exampleuser", 0, NoCursor))
    /\ \E answer \in {"found", "empty", "error"} :
          LET out == LookupOutcome(answer)
          IN /\ broadcaster_id' = out.id
             /\ pc' = IF out.exits THEN "exited" ELSE "time_range"
             /\ exit_code' = IF out.exits THEN 1 ELSE exit_code
             /\ error_message' = IF out.message # "none" THEN out.message
                                 ELSE error_message
    /\ UNCHANGED <<config, game_cache, headers, limit, cursor, after, pages,
                   clips, seen_clip_ids, received, skipped, fetched, responses,
                   first_record, dlVars,
                   tokenVars, start_timestamp, end_timestamp, provider_clips,
                   cfgVars>>

\* input_time_range, and for a valid range the call of get_clips up to its
\* first request (lines 316-319).
InputTimeRange ==
    /\ pc = "time_range"
    /\ \E entry \in DateEntries :
          LET start_date == entry[1]
              end_date == entry[2]
          IN
          IF start_date = BadDate \/ end_date = BadDate
          THEN /\ pc' = "exited"
               /\ exit_code' = 1
               /\ error_message' = "invalid_date_format"
               /\ UNCHANGED <<start_timestamp, end_timestamp, headers>>
          ELSE IF StartOfDay(start_date) > EndOfDay(end_date)
          THEN /\ pc' = "exited"
               /\ exit_code' = 1
               /\ error_message' = "start_after_end"
               /\ UNCHANGED <<start_timestamp, end_timestamp, headers>>
          ELSE /\ pc' = "get_clips"
               /\ start_timestamp' = StartOfDay(start_date)
               /\ end_timestamp' = EndOfDay(end_date)
               /\ headers' = AuthHeaders
               /\ UNCHANGED <<exit_code, error_message>>
    /\ UNCHANGED <<config, requests, game_cache, broadcaster_id, limit, cursor,
                   after, pages, clips, seen_clip_ids, received, skipped,
                   fetched, responses, first_record, dlVars, tokenVars,
                   user_name, provider_clips, cfgVars>>

\* main, lines 516-521: no clips ends the run, else download_clips is called.
StartDownload ==
    /\ pc = "got_clips"
    /\ pc' = IF clips = <<>> THEN "done" ELSE "download"
    /\ UNCHANGED <<config, requests, game_cache, clipVars, dlVars, tokenVars,
                   mainVars, cfgVars>>

\* config.get(...) of a key that is not there, for the user name
NoName == "None"
\* The spacer get_user_config answers with when none is stored.
DefaultSpacer == <<" ", "|", " ">>
\* get_downloads_path(): the Downloads folder of the home directory
DownloadsPath == <<"h">>

\* config = {} (line 53), as get_user_config and get_auth_config see it.
EmptyConfig ==
    [client_id |-> "", client_secret |-> "", access_token |-> "",
     expires_at |-> Absent, dl_folder |-> None, spacer |-> DefaultSpacer,
     default_user_name |-> NoName]

\* load_config up to the call of input_defaults, and for a file that is
\* there the test of args.c in main.
LoadConfig ==
    /\ pc = "load_config"
    /\ config' = IF config_file.state = "json" THEN config_file.content
                 ELSE EmptyConfig
    /\ in_load_config' = (config_file.state = "absent")
    /\ pc' = IF config_file.state = "absent" \/ args_c THEN "input_defaults"
             ELSE "check_token"
    /\ UNCHANGED <<requests, game_cache, clipVars, dlVars, tokenVars, mainVars,
                   config_file, args_c, saves>>

\* input_defaults, with what is typed at its five prompts, and the return
\* to its caller: load_config, after which main tests args.c, or main,
\* which returns.
InputDefaults ==
    /\ pc = "input_defaults"
    /\ \E name_in \in {"", "exampleuser"}, folder_in \in {<<>>, <<"d">>},
          spacer_in \in {<<>>, <<"-">>}, id_in \in {"", "id"},
          secret_in \in {"", "secret"} :
        LET user_config == get_user_config
            old_dl_folder == user_config.dl_folder
            default_user_name == IF name_in # "" THEN name_in
                                 ELSE user_config.default_user_name
            dl_folder == IF folder_in # <<>> THEN folder_in
                         ELSE IF old_dl_folder \notin {None, <<>>} THEN old_dl_folder
                         ELSE DownloadsPath
            spacer == IF spacer_in # <<>> THEN spacer_in ELSE user_config.spacer
            user_ok == dl_folder # <<>> /\ spacer # <<>>
            with_user == save_config_section(config,
                             [default_user_name |-> default_user_name,
                              dl_folder |-> dl_folder, spacer |-> spacer])
            auth_config == get_auth_config
            client_id == IF id_in # "" THEN id_in ELSE auth_config.client_id
            client_secret == IF secret_in # "" THEN secret_in
                             ELSE auth_config.client_secret
            auth_ok == client_id # "" /\ client_secret # ""
            with_auth == save_config_section(with_user,
                             [client_id |-> client_id,
                              client_secret |-> client_secret,
                              access_token |-> auth_config.access_token,
                              expires_at |-> IF auth_config.expires_at = Absent
                                             THEN Malformed
                                             ELSE auth_config.expires_at])
        IN /\ config' = IF ~user_ok THEN config
                        ELSE IF ~auth_ok THEN with_user ELSE with_auth
           /\ config_file' = IF ~user_ok THEN config_file
                             ELSE [state |-> "json", content |-> config']
           /\ saves' = IF ~user_ok THEN saves
                       ELSE IF ~auth_ok THEN Append(saves, "user")
                       ELSE saves \o <<"user", "auth">>
           /\ error_message' = IF dl_folder = <<>> THEN "dl_folder_empty"
                               ELSE IF spacer = <<>> THEN "spacer_empty"
                               ELSE IF client_id = "" THEN "client_id_empty"
                               ELSE IF client_secret = "" THEN "client_secret_empty"
                               ELSE error_message
    /\ pc' = IF ~in_load_config THEN "done"
             ELSE IF args_c THEN "input_defaults" ELSE "check_token"
    /\ in_load_config' = FALSE
    /\ UNCHANGED <<requests, game_cache, clipVars, dlVars, tokenVars, user_name,
                   start_timestamp, end_timestamp, exit_code, provider_clips,
                   args_c>>

\* main was started without -c on a config.json holding `config`, and
\* load_config has read it.
ConfigLoaded ==
    /\ config_file = [state |-> "json", content |-> config]
    /\ args_c = FALSE
    /\ in_load_config = FALSE
    /\ saves = <<>>

\* main has not got to the channel lookup.
MainIdle(pool) ==
    /\ user_name = ""
    /\ start_timestamp = 0
    /\ end_timestamp = 0
    /\ exit_code = 0
    /\ error_message = ""
    /\ provider_clips = pool

----------------------------------------------------------------------------
ValidConfig ==
    [client_id |-> "id", client_secret |-> "secret", access_token |-> "tok",
     expires_at |-> 10, dl_folder |-> <<"d">>, spacer |-> <<"-">>,
     default_user_name |-> "exampleuser"]

\* get_clips called with a loaded configuration and a channel id.
InitClips ==
    /\ pc = "get_clips"
    /\ config = ValidConfig
    /\ requests = <<>>
    /\ game_cache = <<>>
    /\ headers = AuthHeaders
    /\ broadcaster_id \in {"12345"}
    /\ limit = PageSizeStrict
    /\ cursor = NoCursor
    /\ after = NoCursor
    /\ pages = 0
    /\ clips = <<>>
    /\ seen_clip_ids = {}
    /\ received = {}
    /\ skipped = {}
    /\ fetched = <<>>
    /\ responses = <<>>
    /\ first_record = <<>>
    /\ DlIdle
    /\ TokenIdle
    /\ MainIdle(ClipPool)
    /\ ConfigLoaded

NextClips == FetchPage \/ FetchPageFails

SpecClips == InitClips /\ [][NextClips]_vars

\* The clips download_clips is tried on: well-formed ones (the first two get
\* the same file name), and ones with a missing or null field.
DlClipPool ==
    { Clip(1, 2),
      [Clip(2, 3) EXCEPT !.title = <<"a", "!">>],
      [Clip(3, 4) EXCEPT !.game_id = "g2"],
      [Clip(1, 2) EXCEPT !.url = NoUrl],
      Clip(2, 0),
      [Clip(2, 2) EXCEPT !.title = None],
      [Clip(3, 2) EXCEPT !.broadcaster_name = None] }

\* A file a run before this one may have left in the download folder.
OldFile ==
    FilePath(ValidConfig.dl_folder, ValidConfig.spacer, DayName[1], <<"g">>,
             <<"a">>, <<"c">>)

\* download_clips called on a non-empty clip list, as main calls it.
InitDl ==
    /\ pc = "download"
    /\ \E folder \in {ValidConfig.dl_folder, None} :
           config = [ValidConfig EXCEPT !.dl_folder = folder]
    /\ requests = <<>>
    /\ game_cache = <<>>
    /\ headers = AuthHeaders
    /\ broadcaster_id = "12345"
    /\ limit = PageSizeLoose
    /\ cursor = NoCursor
    /\ after = NoCursor
    /\ pages = 0
    /\ clips \in SeqsUpTo(DlClipPool, MaxClips) \ {<<>>}
    /\ seen_clip_ids = {}
    /\ received = {}
    /\ skipped = {}
    /\ fetched = <<>>
    /\ responses = <<>>
    /\ first_record = <<>>
    /\ simulation_mode \in BOOLEAN
    /\ idx = 0
    /\ downloaded_clips = <<>>
    /\ clip_url = Unbound
    /\ disk \in {{}, {OldFile}}
    /\ ydl_calls = <<>>
    /\ outcome = <<>>
    /\ first_run = NoRun
    /\ TokenIdle
    /\ MainIdle({})
    /\ ConfigLoaded

NextDl == ProcessClip

SpecDl == InitDl /\ [][NextDl]_vars

NextRerun == ProcessClip \/ Rerun

\* download_clips called twice on the same clip list.
SpecRerun == InitDl /\ [][NextRerun]_vars

\* What config.json may hold when main has loaded it.
StoredConfigs ==
    {[ValidConfig EXCEPT !.client_id = ids[1], !.client_secret = ids[2],
                         !.access_token = tok, !.expires_at = exp] :
        ids \in {<<"id", "secret">>, <<"", "secret">>, <<"id", "">>},
        tok \in {"", "tok"},
        exp \in {Absent, Malformed, 1, MaxNow}}

\* The stored tokens a whole run of main is tried on: none, an expired one
\* and one that has not expired.
MainConfigs ==
    {c \in StoredConfigs :
        <<c.access_token, c.expires_at>> \in
            {<<"", Absent>>, <<"tok", 1>>, <<"tok", MaxNow>>}}

\* The clips the provider holds in a whole run of main.
MainClipPool == {Clip(1, 3), [Clip(2, 2) EXCEPT !.broadcaster_name = None]}

\* main after load_config, before the token check.
InitToken ==
    /\ pc = "check_token"
    /\ config \in StoredConfigs
    /\ requests = <<>>
    /\ game_cache = <<>>
    /\ headers = [client_id |-> "", token |-> ""]
    /\ broadcaster_id = NoId
    /\ limit = PageSizeStrict
    /\ cursor = NoCursor
    /\ after = NoCursor
    /\ pages = 0
    /\ clips = <<>>
    /\ seen_clip_ids = {}
    /\ received = {}
    /\ skipped = {}
    /\ fetched = <<>>
    /\ responses = <<>>
    /\ first_record = <<>>
    /\ simulation_mode \in BOOLEAN
    /\ idx = 0
    /\ downloaded_clips = <<>>
    /\ clip_url = Unbound
    /\ disk = {}
    /\ ydl_calls = <<>>
    /\ outcome = <<>>
    /\ first_run = NoRun
    /\ now \in 0..MaxNow
    /\ token_valid = FALSE
    /\ checked_at = 0
    /\ validate_answer = "none"
    /\ token_data = "unset"
    /\ renewed_at = 0
    /\ granted_expires_in = 0
    /\ MainIdle(MainClipPool)
    /\ ConfigLoaded

NextToken == CheckToken \/ RenewToken

\* The token check and renewal at the start of main.
SpecToken == InitToken /\ [][NextToken]_vars

\* main from its start, late enough for a stored expires_at to lie behind.
Init ==
    /\ InitToken
    /\ config \in MainConfigs
    /\ now = MaxNow

Next ==
    \/ CheckToken
    \/ RenewToken
    \/ LookupChannel
    \/ InputTimeRange
    \/ FetchPage
    \/ FetchPageFails
    \/ StartDownload
    \/ ProcessClip

\* A whole run of main.
Spec == Init /\ [][Next]_vars

\* What config.json may hold when it is read: complete, with an empty
\* spacer, without a client secret.
FileConfigs ==
    {[ValidConfig EXCEPT !.expires_at = 1],
     [ValidConfig EXCEPT !.expires_at = 1, !.spacer = <<>>],
     [ValidConfig EXCEPT !.expires_at = 1, !.client_secret = ""]}

ConfigFiles ==
    {[state |-> "absent", content |-> EmptyConfig],
     [state |-> "invalid", content |-> EmptyConfig]}
    \cup {[state |-> "json", content |-> c] : c \in FileConfigs}

\* main at its start, before load_config.
InitConfig ==
    /\ pc = "load_config"
    /\ config = EmptyConfig
    /\ config_file \in ConfigFiles
    /\ args_c \in BOOLEAN
    /\ in_load_config = FALSE
    /\ saves = <<>>
    /\ requests = <<>>
    /\ game_cache = <<>>
    /\ headers = [client_id |-> "", token |-> ""]
    /\ broadcaster_id = NoId
    /\ limit = PageSizeStrict
    /\ cursor = NoCursor
    /\ after = NoCursor
    /\ pages = 0
    /\ clips = <<>>
    /\ seen_clip_ids = {}
    /\ received = {}
    /\ skipped = {}
    /\ fetched = <<>>
    /\ responses = <<>>
    /\ first_record = <<>>
    /\ DlIdle
    /\ TokenIdle
    /\ MainIdle(MainClipPool)

NextConfig ==
    \/ LoadConfig
    \/ InputDefaults
    \/ CheckToken
    \/ RenewToken
    \/ LookupChannel

\* main from its start to the channel lookup.
SpecConfig == InitConfig /\ [][NextConfig]_vars

----------------------------------------------------------------------------
\* Claims about get_clips (checked under SpecClips).

NoDuplicateIds(s) == \A i, j \in DOMAIN s : i # j => s[i].id # s[j].id

SortedByCreatedAt(s) ==
    \A i, j \in DOMAIN s : i < j => s[i].created_at <= s[j].created_at

\* C1: whatever the provider answers over both passes, the list get_clips
\* returns holds each clip id at most once.
C1_UniqueIds == pc = "got_clips" => NoDuplicateIds(clips)

\* get_clips returned after an id came in again (in a later page or pass),
\* once with another record than the first time.
C1_Witness ==
    /\ pc = "got_clips"
    /\ skipped # {}
    /\ Len(clips) >= 2
    /\ Cardinality(received) > Len(clips)

\* C2: the list get_clips returns is sorted non-decreasing by created_at.
C2_Sorted == pc = "got_clips" => SortedByCreatedAt(clips)

\* get_clips returned three clips that the provider had sent in another
\* order than the sorted one.
C2_Witness ==
    /\ pc = "got_clips"
    /\ Len(clips) = 3
    /\ fetched # clips
    /\ ~SortedByCreatedAt(fetched)

\* The clips requests sent so far.
ClipRequests == SelectSeq(requests, LAMBDA r : r.kind = "clips")

IsPrefix(s, t) == Len(s) <= Len(t) /\ \A k \in DOMAIN s : s[k] = t[k]

Range(s) == {s[k] : k \in DOMAIN s}

FailedPasses ==
    {ClipRequests[k].first : k \in {j \in DOMAIN responses : responses[j] = "error"}}

\* C11: a failed page request ends its pass only: nothing accumulated is
\* lost in any step of get_clips, after a failure in the first pass the
\* second pass is run, and what get_clips returns is what was accumulated.
C11_FailureEndsPassOnly ==
    /\ [][pc = "get_clips" => IsPrefix(fetched, fetched')]_vars
    /\ [](PageSizeStrict \in FailedPasses =>
            (pc = "get_clips" => limit = PageSizeLoose))
    /\ [](pc = "got_clips" =>
            /\ \E k \in DOMAIN ClipRequests : ClipRequests[k].first = PageSizeLoose
            /\ Range(clips) = Range(fetched)
            /\ Len(clips) = Len(fetched))

\* get_clips returned two or more clips after a page request failed in
\* each pass, each time after a page of that pass had brought a clip.
C11_Witness ==
    /\ pc = "got_clips"
    /\ FailedPasses = {PageSizeStrict, PageSizeLoose}
    /\ Len(ClipRequests) = 4
    /\ Len(clips) >= 2
    /\ skipped = {}

\* C12: in each pass the first request has no `after`, every later one has
\* the cursor of the response right before it, every request has the page
\* size of its pass as `first`, the loose pass follows the strict one, and
\* a pass ends at the first response without a cursor.
C12_CursorProtocol ==
    /\ Len(responses) = Len(ClipRequests)
    /\ \A k \in DOMAIN ClipRequests :
          LET r == ClipRequests[k]
              opensPass == k = 1 \/ ClipRequests[k - 1].first # r.first
          IN /\ r.first \in {PageSizeStrict, PageSizeLoose}
             /\ k = 1 => r.first = PageSizeStrict
             /\ k > 1 => (ClipRequests[k - 1].first = PageSizeLoose
                             => r.first = PageSizeLoose)
             /\ opensPass => r.after = NoCursor
             /\ ~opensPass => /\ responses[k - 1] \in Cursors
                              /\ r.after = responses[k - 1]
             /\ (k > 1 /\ opensPass) => responses[k - 1] \notin Cursors
    /\ pc = "get_clips" =>
          (limit = IF \E k \in DOMAIN ClipRequests :
                        ClipRequests[k].first = PageSizeStrict
                        /\ responses[k] \notin Cursors
                   THEN PageSizeLoose ELSE PageSizeStrict)
    /\ pc = "got_clips" => responses[Len(responses)] \notin Cursors

\* get_clips returned after a first pass that followed a cursor and then
\* failed, and a second pass that followed a cursor too.
C12_Witness ==
    /\ pc = "got_clips"
    /\ Len(ClipRequests) = 4
    /\ responses[1] \in Cursors
    /\ responses[2] = "error"
    /\ responses[3] \in Cursors
    /\ responses[3] # responses[1]

\* C20: get_clips returns, for each id received in some page, the record of
\* that id received first, and nothing else.
C20_FirstRecordOfEachId ==
    pc = "got_clips" =>
        /\ {clips[k].id : k \in DOMAIN clips} = {c.id : c \in received}
        /\ Range(clips) \subseteq received
        /\ \A k \in DOMAIN clips : clips[k] = first_record[clips[k].id]

\* get_clips returned after an id came in with two records.
C20_Witness ==
    /\ pc = "got_clips"
    /\ Cardinality(received) > Len(clips)
    /\ Len(clips) = 3

----------------------------------------------------------------------------
\* Claims about get_game_name and download_clips (checked under SpecDl).

HasUrlAndDate(clip) == clip.url # NoUrl /\ clip.created_at # 0

\* The clip has a field, or the configuration a download folder, on which
\* building the file name or the path raises.
RaisesBeforeTransfer(clip) ==
    \/ clip.broadcaster_name = None
    \/ clip.title = None
    \/ clip.creator_name = None
    \/ config.dl_folder = None

GameRequests(g) ==
    {i \in DOMAIN requests : requests[i].kind = "games" /\ requests[i].arg = g}

\* The target path of the i-th input clip, with the game name its
\* iteration got from get_game_name.
TargetPath(i) ==
    FilePath(config.dl_folder, config.spacer, DatePart(clips[i].created_at),
             Sanitize(outcome[i].game), Sanitize(clips[i].title),
             Sanitize(clips[i].creator_name))

Indices == [i \in 1..Len(clips) |-> i]

\* C5 (as claimed): at most one category request per id is ever sent, and a
\* lookup that fails or finds nothing yields "Unknown".
C5_OneLookupPerId ==
    /\ \A g \in GameIds : Cardinality(GameRequests(g)) <= 1
    /\ \A i \in DOMAIN outcome :
          outcome[i].answer \in {"nodata", "error"} => outcome[i].game = Unknown

\* C7: a clip whose target path exists on disk when its iteration gets to
\* it has that path in the result, and ydl.download is not invoked for it,
\* with and without simulation_mode.
C7_ExistingSkipped ==
    \A i \in DOMAIN outcome :
        outcome[i].existed =>
            /\ \E k \in DOMAIN downloaded_clips : downloaded_clips[k] = outcome[i].path
            /\ \A k \in DOMAIN ydl_calls : ydl_calls[k].clip # i
            /\ outcome[i].kind # "raise"
            /\ pc # "crashed"

\* A real run returned in which one clip was found on disk and another was
\* handed to the downloader.
C7_Witness ==
    /\ pc = "dl_returned"
    /\ ~simulation_mode
    /\ ydl_calls # <<>>
    /\ \E i \in DOMAIN outcome : outcome[i].existed

\* C8 (as claimed): in simulation mode the downloader is never invoked and
\* the result has one path per input clip that has a URL and a date.
C8_SimulationCount ==
    simulation_mode =>
        /\ ydl_calls = <<>>
        /\ pc = "dl_returned" =>
               Len(downloaded_clips) =
                   Cardinality({i \in DOMAIN clips : HasUrlAndDate(clips[i])})

\* C8 (amended): in simulation mode the downloader is never invoked, and
\* when download_clips returns the result has one path per input clip that
\* has a URL and a date and on which building the file path did not raise.
C8_SimulationCountNoRaise ==
    simulation_mode =>
        /\ ydl_calls = <<>>
        /\ pc = "dl_returned" =>
               Len(downloaded_clips) =
                   Cardinality({i \in DOMAIN clips :
                       HasUrlAndDate(clips[i]) /\ ~RaisesBeforeTransfer(clips[i])})

\* A simulated run returned one path for two clips, the other clip lacking
\* a URL or a date.
C8_Witness ==
    /\ pc = "dl_returned"
    /\ simulation_mode
    /\ Len(clips) = 2
    /\ Len(downloaded_clips) = 1
    /\ \E i \in DOMAIN clips : ~HasUrlAndDate(clips[i])
    /\ \E i \in DOMAIN outcome : outcome[i].kind = "simulated"

\* C9 (as claimed): no error met while a clip is processed ends the batch.
C9_BatchNeverAborts == pc # "crashed"

\* C10 (as claimed): the result is the target paths, in input order, of the
\* clips that have a URL and a date and whose transfer did not fail.
C10_ResultPaths ==
    pc = "dl_returned" =>
        LET kept == SelectSeq(Indices, LAMBDA i :
                        /\ HasUrlAndDate(clips[i])
                        /\ outcome[i].xfer \notin {"fail", "partial"})
        IN downloaded_clips = [k \in DOMAIN kept |-> TargetPath(kept[k])]

\* C10 (amended): when download_clips returns, the result is the target
\* paths, in input order, of the clips that have a URL and a date and whose
\* processing raised nothing, neither building the path nor the transfer.
C10_ResultPathsNoRaise ==
    pc = "dl_returned" =>
        LET kept == SelectSeq(Indices, LAMBDA i :
                        /\ HasUrlAndDate(clips[i])
                        /\ ~RaisesBeforeTransfer(clips[i])
                        /\ outcome[i].xfer \notin {"fail", "partial"})
        IN downloaded_clips = [k \in DOMAIN kept |-> TargetPath(kept[k])]

\* A real run returned one path for two clips that both have a URL and a
\* date: the transfer of the other one failed.
C10_Witness ==
    /\ pc = "dl_returned"
    /\ ~simulation_mode
    /\ Len(clips) = 2
    /\ \A i \in DOMAIN clips : HasUrlAndDate(clips[i])
    /\ Len(downloaded_clips) = 1
    /\ \E i \in DOMAIN outcome : outcome[i].xfer = "fail"
    /\ \E i \in DOMAIN outcome : outcome[i].xfer = "ok"

----------------------------------------------------------------------------
\* Claims about main (checked under Spec) and about is_token_valid (checked
\* under SpecToken).

AuthenticatedKinds == {"users", "clips", "games"}

\* C3 (as claimed): once the renewal has failed, the run issues no users
\* lookup, no clips request and no category lookup.
C3_NoRequestAfterFailedRenewal ==
    token_data = "None" =>
        \A i \in DOMAIN requests : requests[i].kind \notin AuthenticatedKinds

\* C4 (as claimed): a run that ends on a malformed or reversed date range
\* has issued no network request.
C4_NoRequestBeforeDateFailure ==
    (pc = "exited" /\ error_message \in {"invalid_date_format", "start_after_end"})
        => (exit_code = 1 /\ requests = <<>>)

\* is_token_valid has returned and nothing has run since.
TokenChecked == pc \in {"renew", "channel"} /\ token_data = "unset"

\* C6 (as claimed): is_token_valid returns true exactly when the stored
\* token is non-empty and expires_at parses to a time after now.
C6_ValidIffUnexpired ==
    TokenChecked =>
        (token_valid <=>
            /\ config.access_token # ""
            /\ config.expires_at >= 0
            /\ checked_at < config.expires_at * TicksPerSec)

\* C6 (amended): is_token_valid returns true exactly when the stored token
\* is non-empty, expires_at parses to a time after now and the validate
\* endpoint answers 200; one second after expires_at it returns false, one
\* second before it returns what the validate endpoint says.
C6_ValidIffUnexpiredAndConfirmed ==
    TokenChecked =>
        /\ token_valid <=>
              /\ config.access_token # ""
              /\ config.expires_at >= 0
              /\ checked_at < config.expires_at * TicksPerSec
              /\ validate_answer = "200"
        /\ (config.expires_at >= 0
               /\ checked_at = config.expires_at * TicksPerSec + TicksPerSec)
              => ~token_valid
        /\ (config.expires_at >= 0 /\ config.access_token # ""
               /\ checked_at + TicksPerSec = config.expires_at * TicksPerSec)
              => (token_valid <=> validate_answer = "200")

\* is_token_valid returned true for a token that expires one second later.
C6_Witness ==
    /\ TokenChecked
    /\ token_valid
    /\ config.expires_at >= 0
    /\ checked_at + TicksPerSec = config.expires_at * TicksPerSec

\* The token requests sent so far.
TokenRequests == SelectSeq(requests, LAMBDA r : r.kind = "token")

\* C13: when the client id or the client secret is missing,
\* manage_twitch_oauth_token returns None, sends no request and leaves the
\* stored credentials as they are.
C13_NoRenewalWithoutCredentials ==
    [][(pc = "renew" /\ (config.client_id = "" \/ config.client_secret = ""))
          => /\ token_data' = "None"
             /\ requests' = requests
             /\ config' = config]_vars

\* manage_twitch_oauth_token returned None for a stored client id without
\* a client secret.
C13_Witness ==
    /\ pc = "channel"
    /\ token_data = "None"
    /\ config.client_id # ""
    /\ config.client_secret = ""
    /\ TokenRequests = <<>>

\* manage_twitch_oauth_token stored a token and returned the response.
Renewed == token_data = "data"

\* C16: after a successful renewal the stored expires_at is the time of the
\* renewal plus expires_in seconds.
C16_ExpiresAtExact ==
    Renewed =>
        strptime(config.expires_at) = renewed_at + granted_expires_in * TicksPerSec

\* C16 (amended): after a successful renewal the stored credentials are the
\* client id and secret of the request and the token of the response, the
\* stored expires_at is the time of the renewal plus expires_in seconds with
\* the fraction of the second dropped, and the token is locally unexpired
\* at every time before the stored expires_at.
C16_ExpiresAtTruncated ==
    Renewed =>
        LET rq == TokenRequests[Len(TokenRequests)]
            exact == renewed_at + granted_expires_in * TicksPerSec
        IN /\ config.client_id = rq.client_id
           /\ config.client_secret = rq.arg
           /\ config.access_token = "new"
           /\ strptime(config.expires_at) <= exact
           /\ exact < strptime(config.expires_at) + TicksPerSec
           /\ \A t \in 0..(strptime(config.expires_at) + TicksPerSec) :
                 LocallyUnexpired(get_auth_config, t)
                     <=> t < strptime(config.expires_at)

\* A renewal at half a second past the second succeeded.
C16_Witness ==
    /\ Renewed
    /\ renewed_at % TicksPerSec = 1
    /\ granted_expires_in = 2

\* C14: when the users lookup returns no user, the run ends with exit code
\* 1 and the users request stays the last thing it did: no clips request,
\* no category lookup, no download.
C14_NotFoundIsFatal ==
    error_message = "user_not_found" =>
        /\ pc = "exited"
        /\ exit_code = 1
        /\ requests[Len(requests)].kind = "users"
        /\ \A i \in DOMAIN requests : requests[i].kind \notin {"clips", "games"}
        /\ idx = 0
        /\ ydl_calls = <<>>
        /\ downloaded_clips = <<>>

\* The users lookup, sent with a valid token, found no user.
C14_Witness ==
    /\ error_message = "user_not_found"
    /\ token_valid
    /\ pc = "exited"

\* C19 (as claimed): every clips request carries the id the users lookup
\* returned; without an id no clips request is sent.
C19_ClipsRequestHasId ==
    \A i \in DOMAIN requests :
        requests[i].kind = "clips" =>
            /\ broadcaster_id # NoId
            /\ requests[i].arg = broadcaster_id

\* A real run of download_clips returned, on clips with pairwise distinct
\* ids whose fields are all strings, from an empty download folder and with
\* a downloader that never failed.
CleanRunReturned ==
    /\ pc = "dl_returned"
    /\ ~simulation_mode
    /\ \A i, j \in DOMAIN clips : clips[i].id = clips[j].id => i = j
    /\ \A i \in DOMAIN clips : ~RaisesBeforeTransfer(clips[i])
    /\ disk \subseteq {ydl_calls[k].path : k \in DOMAIN ydl_calls}
    /\ \A i \in DOMAIN outcome : outcome[i].xfer \in {"ok", "none"}

\* C18 (as claimed): from an empty download folder, without simulation and
\* with a downloader that never fails, the downloader is invoked exactly
\* once for every clip that has a URL and a date, and the returned paths
\* are pairwise distinct, one per such clip.
C18_OneFilePerClip ==
    CleanRunReturned =>
        LET good == {i \in DOMAIN clips : HasUrlAndDate(clips[i])}
        IN /\ \A i \in good :
                 Cardinality({k \in DOMAIN ydl_calls : ydl_calls[k].clip = i}) = 1
           /\ Len(downloaded_clips) = Cardinality(good)
           /\ \A k, l \in DOMAIN downloaded_clips :
                 downloaded_clips[k] = downloaded_clips[l] => k = l

\* C17 (as claimed): a second call of download_clips on the same clips,
\* after a real first call that transferred every clip with success,
\* invokes the downloader for no clip and returns the paths the first call
\* returned.
C17_RerunSkipsAll ==
    (pc = "dl_returned" /\ first_run.done /\ first_run.all_ok) =>
        /\ ydl_calls = <<>>
        /\ downloaded_clips = first_run.paths

EmptyFieldMessages ==
    {"dl_folder_empty", "spacer_empty", "client_id_empty", "client_secret_empty"}

\* C15 (as claimed): once input_defaults has found a required field empty,
\* the run has ended with exit code 1, nothing has been written to
\* config.json and no request has been sent.
C15_EmptyFieldIsFatal ==
    error_message \in EmptyFieldMessages =>
        /\ pc = "exited"
        /\ exit_code = 1
        /\ saves = <<>>
        /\ requests = <<>>

\* The position of the token request in the log, 0 when there is none.
RenewalAt ==
    IF TokenRequests = <<>> THEN 0
    ELSE CHOOSE i \in DOMAIN requests : requests[i].kind = "token"

\* The authenticated requests sent after the token request.
LaterRequests ==
    {i \in DOMAIN requests :
        i > RenewalAt /\ requests[i].kind \in AuthenticatedKinds}

\* C21: after main found the stored token invalid and the renewal
\* succeeded, every users, clips and category request of the run carries
\* the token of the token response, and none carries the stored one.
C21_RenewedTokenUsed ==
    (Renewed /\ ~token_valid) =>
        /\ Len(TokenRequests) = 1
        /\ \A i \in DOMAIN requests :
              requests[i].kind \in AuthenticatedKinds => i > RenewalAt
        /\ \A i \in LaterRequests : requests[i].token = "new"
        /\ pc = "get_clips" => headers.token = "new"

\* The stored token was refused by the validate endpoint and renewed, and
\* the run went on to a users lookup, a clips request and a category lookup.
C21_Witness ==
    /\ Renewed
    /\ requests[1].kind = "validate"
    /\ requests[1].token = "tok"
    /\ {requests[i].kind : i \in LaterRequests} = AuthenticatedKinds

====
